---- MODULE Spec2Model ----
(***************************************************************************)
(* Shift clock-in / clock-out ledger of the ELL Knowledge Builder plugin   *)
(* (src/shift-handoff.ts).  The settings object (roster, identity, active  *)
(* sessions, history) is shared by every command, modal and timer; each    *)
(* handler is an async function, so it runs up to its first await in one   *)
(* step and every later piece runs as a separate step when its I/O         *)
(* completes.  Other handlers may run in between.  An action that settles  *)
(* an awaited write takes the outcome of the write as `ok`.  The status bar *)
(* is refreshed by an interval timer, and saveSettings() hands the settings *)
(* object to the host's saveData, which writes it out as it is at the call. *)
(***************************************************************************)
EXTENDS Integers, Sequences, FiniteSets, Bags, TLC

(***************************************************************************)
(* Bounds of the model.                                                    *)
(***************************************************************************)
MaxTime == 1          \* last clock reading of the general specification
MaxClosed == 1        \* clock-outs explored by the general specification
MaxPending == 2       \* async operations awaiting I/O at the same time
MaxCycles == 105      \* clock-in/out cycles of the cycle specification
MaxClosedFaults == 2  \* clock-outs explored by the specification with I/O faults
MaxMinutes == 1530    \* last clock reading of the clock specification, in minutes
TicksPerMinute == 2   \* clock readings that fall in one wall-clock minute
MaxMessages == 2      \* markdown files in the vault at the same time
MaxMessageHours == 25 \* last clock reading of the popup specification, in hours

(***************************************************************************)
(* Program constants.                                                      *)
(***************************************************************************)
HistoryLimit == 100

(***************************************************************************)
(* Strings are sequences of one-character strings.  JS null and the empty  *)
(* string are both falsy and ids are never empty, so an absent identity is *)
(* the empty string; an absent time or note is the empty sequence and a    *)
(* present one is the one-element sequence holding it.                     *)
(***************************************************************************)
Null == << >>
Some(x) == << x >>

RECURSIVE TrimStart(_)
TrimStart(s) == IF s # << >> /\ Head(s) = " " THEN TrimStart(Tail(s)) ELSE s

RECURSIVE TrimEnd(_)
TrimEnd(s) ==
    IF s # << >> /\ s[Len(s)] = " " THEN TrimEnd(SubSeq(s, 1, Len(s) - 1)) ELSE s

Trim(s) == TrimEnd(TrimStart(s))

LowerChar(c) == IF c = "A" THEN "a" ELSE IF c = "B" THEN "b" ELSE c

ToLowerCase(s) == [i \in 1..Len(s) |-> LowerChar(s[i])]

\* What the user may have typed in a name field and in an id field.
RawNames == { << >>, <<" ">>, <<"A">>, <<" ", "A">> }
RawIds == { << >>, <<" ">>, <<"a">>, <<" ", "A", " ">>, <<"b">> }

\* What the user may have filled in the clock-out form.
FormInputs ==
    { [whatYouDid |-> "Ran calibration", whatsRunning |-> "", needsAttention |-> "",
       tagNextPerson |-> "b", additionalNotes |-> ""] }

\* What the user may type into the form after the submit.
FormEdits ==
    { [whatYouDid |-> "", whatsRunning |-> "Centrifuge", needsAttention |-> "Freezer alarm",
       tagNextPerson |-> "", additionalNotes |-> "Back at nine"] }

JSONStringify(d) ==
    <<"whatYouDid", d.whatYouDid, "whatsRunning", d.whatsRunning,
      "needsAttention", d.needsAttention, "tagNextPerson", d.tagNextPerson,
      "additionalNotes", d.additionalNotes>>

VARIABLES
    labMembers,      \* settings.labMembers: sequence of [name, id]
    currentUser,     \* settings.currentUser: an id, or Null
    activeSessions,  \* settings.activeSessions
    sessionHistory,  \* settings.sessionHistory
    now,             \* the last reading of the system clock
    folderExists,    \* the vault holds the handoff folder
    docs,            \* the handoff documents in the vault: [path, content]
    setupModal,      \* UserSetupModal: Null, or Some(ids offered by its dropdown)
    clockOutModal,   \* ClockOutModal is open
    manageModal,     \* ManageMembersModal: Null, or Some(members as last rendered)
    pending,         \* bag of the async operations suspended at an await
    last,            \* the handler step that ran last and the Notice it showed
    closedLog,       \* every session ever closed, in closing order (history variable)
    persisted,       \* the settings as last handed to saveData by saveSettings()
    modalTask,       \* Null, or Some(the pending clockOut that the submit handler
                     \* of the open ClockOutModal awaits)
    statusBar,       \* what the status bar item shows
    pinnedFiles,     \* settings.pinnedFiles: sequence of paths
    toggles,         \* per path, the toggles of its pin since the path was last
                     \* absent from pinnedFiles (history variable)
    settingsTab,     \* the plugin's settings tab: Null, or Some(the pinned files
                     \* as display() last listed them)
    popupWindow,     \* settings.popupWindow: [messagesFolder, autoDeleteEnabled,
                     \* autoDeleteHours]
    popupSettings,   \* the popupSettings object of initializePopupWindow
    messages,        \* the markdown files in the vault: [folder, basename, ctime]
    seenFiles,       \* the basenames b for which SeenMessages/b.md exists
    popupModal       \* PinnedMessagesModal: Null, or Some([messages, autoDeleteHours])

vars ==
    <<labMembers, currentUser, activeSessions, sessionHistory, now, folderExists,
      docs, setupModal, clockOutModal, manageModal, pending, last, closedLog,
      persisted, modalTask, statusBar, pinnedFiles, toggles, settingsTab, popupWindow,
      popupSettings, messages, seenFiles, popupModal>>

settingsVars == <<labMembers, currentUser, activeSessions, sessionHistory>>
vaultVars == <<folderExists, docs>>
modalVars == <<setupModal, clockOutModal, manageModal>>
handoffVars ==
    <<settingsVars, now, vaultVars, modalVars, closedLog, modalTask, statusBar>>
pinVars == <<pinnedFiles, toggles>>
popupVars == <<popupWindow, popupSettings, messages, seenFiles, popupModal>>
featureVars == <<pinVars, settingsTab, popupVars>>

(***************************************************************************)
(* Helpers of the source.                                                  *)
(***************************************************************************)
HasSession(sessions, userId) ==
    \E i \in 1..Len(sessions) : sessions[i].userId = userId

\* Variant: any active session counts, whoever it belongs to.
isUserClockedIn_AnyActive == currentUser # Null /\ activeSessions # << >>

\* Variant: only the first active session is looked at.
isUserClockedIn_FirstOnly ==
    /\ currentUser # Null
    /\ activeSessions # << >>
    /\ activeSessions[1].userId = currentUser

isUserClockedIn ==
    IF currentUser = Null THEN FALSE ELSE HasSession(activeSessions, currentUser)

\* Array.findIndex, 1-based; 0 stands for the -1 of "not found".
FindIndex(sessions, userId) ==
    IF HasSession(sessions, userId)
    THEN CHOOSE i \in 1..Len(sessions) :
            /\ sessions[i].userId = userId
            /\ \A j \in 1..(i - 1) : sessions[j].userId # userId
    ELSE 0

getMemberName(members, userId) ==
    IF \E i \in 1..Len(members) : members[i].id = userId
    THEN LET i == CHOOSE i \in 1..Len(members) :
                    /\ members[i].id = userId
                    /\ \A j \in 1..(i - 1) : members[j].id # userId
         IN members[i].name
    ELSE userId

\* Variant: the last element is removed (a pop), whatever the index.
Splice_Last(seq, index) ==
    IF index \in 1..Len(seq) THEN SubSeq(seq, 1, Len(seq) - 1) ELSE seq

\* Array.splice(index, 1) with a 1-based index: past the end it removes nothing.
Splice(seq, index) ==
    IF index \in 1..Len(seq)
    THEN SubSeq(seq, 1, index - 1) \o SubSeq(seq, index + 1, Len(seq))
    ELSE seq

\* Variant: slice(0, n), which keeps the oldest n.
SliceLast_KeepsOldest(seq, n) == IF Len(seq) > n THEN SubSeq(seq, 1, n) ELSE seq

\* Array.slice(-n)
SliceLast(seq, n) ==
    IF Len(seq) > n THEN SubSeq(seq, Len(seq) - n + 1, Len(seq)) ELSE seq

\* Variant: only the first member is compared.
HasMemberId_FirstOnly(members, id) == members # << >> /\ members[1].id = id

HasMemberId(members, id) == \E i \in 1..Len(members) : members[i].id = id

MemberIds(members) == {members[i].id : i \in 1..Len(members)}

\* Clock readings are in ticks.
TicksPerHour == 60 * TicksPerMinute
Minute(t) == t \div TicksPerMinute

getCurrentUserSession(sessions, userId) ==
    IF userId = Null \/ ~HasSession(sessions, userId)
    THEN Null
    ELSE Some(CHOOSE session \in {sessions[i] : i \in 1..Len(sessions)} :
                 session.userId = userId)

\* `${hours}h ${mins}m` with hours = Math.floor(diff.asHours()) and
\* mins = diff.minutes(), for the interval from clockInTime to the reading t.
getSessionDuration(clockInTime, t) ==
    [h |-> (t - clockInTime) \div TicksPerHour,
     m |-> Minute(t - clockInTime) % 60]

\* What updateStatusBar sets as the text of the status bar item.
StatusText(sessions, userId, t) ==
    IF getCurrentUserSession(sessions, userId) # Null
    THEN [text |-> "Clocked in",
          duration |-> Some(getSessionDuration(
                          getCurrentUserSession(sessions, userId)[1].clockInTime, t))]
    ELSE IF userId # Null
    THEN [text |-> "Not clocked in", duration |-> Null]
    ELSE [text |-> "Set up lab identity", duration |-> Null]

(***************************************************************************)
(* Suspended async operations.                                             *)
(***************************************************************************)
Task(op, pc, sess, data, path, content) ==
    [op |-> op, pc |-> pc, sess |-> sess, data |-> data, path |-> path,
     content |-> content]

SaveTask(op) == Task(op, "saveSettings", Null, Null, Null, Null)

CanSuspend == BagCardinality(pending) < MaxPending

Suspend(task) == pending (+) SetToBag({task})
Resume(task) == pending (-) SetToBag({task})
Continue(task, next) == (pending (-) SetToBag({task})) (+) SetToBag({next})

Event(op, notice) == [op |-> op, notice |-> notice]

\* saveSettings(): saveData serializes the settings object as it is when called.
saveData(members, user, active, history) ==
    [labMembers |-> members, currentUser |-> user, activeSessions |-> active,
     sessionHistory |-> history]

\* A modal keeps the keyboard scope while it is open: the host delivers the
\* plugin's commands only when none is.
NoModal ==
    /\ setupModal = Null
    /\ ~clockOutModal
    /\ manageModal = Null
    /\ settingsTab = Null
    /\ popupModal = Null

\* The paths of the files and folders the user may pin.
Paths == {"p", "q", "r"}

\* DEFAULT_SETTINGS.popupWindow
DefaultHours == 24
DefaultPopup ==
    [messagesFolder |-> <<"P">>, autoDeleteEnabled |-> TRUE,
     autoDeleteHours |-> DefaultHours]

Init ==
    /\ labMembers = << >>
    /\ currentUser = Null
    /\ activeSessions = << >>
    /\ sessionHistory = << >>
    /\ now = 0
    /\ folderExists = FALSE
    /\ docs = {}
    /\ setupModal = Some({})    \* onLayoutReady opens it: no identity yet
    /\ clockOutModal = FALSE
    /\ manageModal = Null
    /\ pending = EmptyBag
    /\ last = Event("init", "none")
    /\ closedLog = << >>
    /\ persisted = saveData(<< >>, Null, << >>, << >>)
    /\ modalTask = Null
    /\ statusBar = StatusText(<< >>, Null, 0)
    /\ pinnedFiles = << >>
    /\ toggles = [path \in Paths |-> 0]
    /\ settingsTab = Null
    /\ popupWindow = DefaultPopup
    /\ popupSettings = DefaultPopup    \* Object.assign({}, DEFAULT_SETTINGS, ...)
    /\ messages = {}
    /\ seenFiles = {}
    /\ popupModal = Null

(***************************************************************************)
(* clockIn                                                                 *)
(***************************************************************************)
\* Variant: the new session is stamped as closed already.
NewSession_Closed(userId, t) ==
    [userId |-> userId, clockInTime |-> t, clockOutTime |-> Some(t), handoffNote |-> Null]

NewSession(userId, t) ==
    [userId |-> userId, clockInTime |-> t, clockOutTime |-> Null, handoffNote |-> Null]

\* Variant: clockIn without its identity check.
ClockIn_NoIdentityCheck(t) ==
    /\ NoModal
    /\ IF isUserClockedIn
       THEN /\ last' = Event("clockIn", "AlreadyActive")
            /\ UNCHANGED <<settingsVars, now, pending, modalVars, persisted>>
       ELSE /\ CanSuspend
            /\ now' = t
            /\ activeSessions' = Append(activeSessions, NewSession(currentUser, t))
            /\ persisted' = saveData(labMembers, currentUser, activeSessions',
                                     sessionHistory)
            /\ pending' = Suspend(SaveTask("clockIn"))
            /\ last' = Event("clockIn", "none")
            /\ UNCHANGED <<labMembers, currentUser, sessionHistory, modalVars>>
    /\ UNCHANGED <<vaultVars, closedLog, statusBar, modalTask>>
    /\ UNCHANGED featureVars

\* The 'clock-in' command; t is the reading of new Date().
ClockIn(t) ==
    /\ NoModal
    /\ IF currentUser = Null
       THEN /\ last' = Event("clockIn", "NotSetUp")
            /\ setupModal' = Some(MemberIds(labMembers))
            /\ UNCHANGED <<settingsVars, now, pending, clockOutModal, manageModal,
                           persisted>>
       ELSE IF isUserClockedIn
       THEN /\ last' = Event("clockIn", "AlreadyActive")
            /\ UNCHANGED <<settingsVars, now, pending, modalVars, persisted>>
       ELSE /\ CanSuspend
            /\ now' = t
            /\ activeSessions' = Append(activeSessions, NewSession(currentUser, t))
            /\ persisted' = saveData(labMembers, currentUser, activeSessions',
                                     sessionHistory)
            /\ pending' = Suspend(SaveTask("clockIn"))
            /\ last' = Event("clockIn", "none")
            /\ UNCHANGED <<labMembers, currentUser, sessionHistory, modalVars>>
    /\ UNCHANGED <<vaultVars, closedLog, statusBar, modalTask>>
    /\ UNCHANGED featureVars

\* saveSettings() of clockIn has settled: the welcome Notice, unless it threw.
ClockInSaved(task, ok) ==
    /\ task.op = "clockIn"
    /\ pending' = Resume(task)
    /\ last' = Event("clockInSaved", IF ok THEN "Welcome" ELSE "none")
    /\ UNCHANGED <<settingsVars, now, vaultVars, modalVars, closedLog,
                   statusBar, modalTask, persisted>>
    /\ UNCHANGED featureVars

(***************************************************************************)
(* clockOut                                                                *)
(***************************************************************************)
\* The 'clock-out' command.
ClockOutCommand ==
    /\ NoModal
    /\ IF ~isUserClockedIn
       THEN /\ last' = Event("clockOutCommand", "NoActiveSession")
            /\ UNCHANGED <<clockOutModal, modalTask>>
       ELSE /\ last' = Event("clockOutCommand", "none")
            /\ clockOutModal' = TRUE
            /\ modalTask' = Null
    /\ UNCHANGED <<settingsVars, now, vaultVars, setupModal, manageModal, pending,
                   closedLog, statusBar, persisted>>
    /\ UNCHANGED featureVars

\* Cancel button of the ClockOutModal.
ClockOutCancel ==
    /\ clockOutModal
    /\ clockOutModal' = FALSE
    /\ modalTask' = Null
    /\ last' = Event("modal", "none")
    /\ UNCHANGED <<settingsVars, now, vaultVars, setupModal, manageModal, pending,
                   closedLog, statusBar, persisted>>
    /\ UNCHANGED featureVars

\* Variant: the file name carries the clock-out time to the tick.
Filename_ToTheTick(clockOutTime, userName) ==
    [minute |-> clockOutTime, name |-> userName]

\* Variant: the clock-out time is cut to the minute, as the file name is.
CloseSession_ToMinute(session, t, data) ==
    [session EXCEPT !.clockOutTime = Some(t - (t % TicksPerMinute)),
                    !.handoffNote = Some(JSONStringify(data))]

\* Variant: the closed session keeps no handoff note.
CloseSession_NoNote(session, t, data) == [session EXCEPT !.clockOutTime = Some(t)]

CloseSession(session, t, data) ==
    [session EXCEPT !.clockOutTime = Some(t), !.handoffNote = Some(JSONStringify(data))]

\* Variant: the history is never cut.
PushHistory_NoCut(history, session) == Append(history, session)

\* sessionHistory.push(session), then the cut to the last HistoryLimit sessions.
PushHistory(history, session) ==
    IF Len(Append(history, session)) > HistoryLimit
    THEN SliceLast(Append(history, session), HistoryLimit)
    ELSE Append(history, session)

\* `${folder}/${date}_${time}_${userName}.md`: the folder is fixed, date and
\* time are the clock-out time cut to the minute.
Filename(clockOutTime, userName) ==
    [minute |-> clockOutTime \div TicksPerMinute, name |-> userName]

\* moment.utc(duration).format('H[h] m[m]'): the duration is read as a time since
\* the epoch, and H and m are the hour of the day and the minute of that time.
DurationStr(duration) ==
    [h |-> (duration \div TicksPerHour) % 24, m |-> Minute(duration) % 60]

\* `${field || placeholder}`
Section(field, placeholder) == IF field = "" THEN placeholder ELSE field

\* The text of the handoff document: heading, date, the two times of day, the
\* duration line and the five sections.
Content(session, data, userName) ==
    [heading |-> userName,
     date |-> Minute(session.clockOutTime[1]) \div (24 * 60),
     timeIn |-> Minute(session.clockInTime) % (24 * 60),
     timeOut |-> Minute(session.clockOutTime[1]) % (24 * 60),
     duration |-> DurationStr(session.clockOutTime[1] - session.clockInTime),
     whatIDid |-> Section(data.whatYouDid, "_No notes_"),
     running |-> Section(data.whatsRunning, "_Nothing noted_"),
     needsAttention |-> Section(data.needsAttention, "_Nothing urgent_"),
     tagged |-> IF data.tagNextPerson = "" THEN "_No one tagged_"
                ELSE "@" \o data.tagNextPerson,
     additionalNotes |-> Section(data.additionalNotes, "_None_")]

\* saveHandoffNote from the folder check on, or from the return of createFolder.
CreateTask(session, data, members) ==
    Task("clockOut", "create", Some(session), Some(data),
         Some(Filename(session.clockOutTime[1], getMemberName(members, session.userId))),
         Some(Content(session, data, getMemberName(members, session.userId))))

\* Submit button of the ClockOutModal: clockOut up to its first await.  t is the
\* reading of new Date(), data the form as filled in; cap bounds the clock-outs.
ClockOutSubmit(t, data, cap) ==
    /\ clockOutModal
    /\ LET sessionIndex == FindIndex(activeSessions, currentUser) IN
       IF sessionIndex = 0
       THEN /\ last' = Event("clockOut", "NoActiveSession")
            /\ clockOutModal' = FALSE
            /\ modalTask' = Null
            /\ UNCHANGED <<settingsVars, now, pending, closedLog>>
       ELSE LET session == CloseSession(activeSessions[sessionIndex], t, data)
                task == IF folderExists
                        THEN CreateTask(session, data, labMembers)
                        ELSE Task("clockOut", "createFolder", Some(session), Some(data),
                                  Null, Null)
            IN
            /\ CanSuspend
            /\ now' = t
            /\ Len(closedLog) < cap
            /\ activeSessions' = Splice(activeSessions, sessionIndex)
            /\ sessionHistory' = PushHistory(sessionHistory, session)
            /\ closedLog' = Append(closedLog, session)
            /\ pending' = Suspend(task)
            /\ modalTask' = Some(task)
            /\ last' = Event("clockOut", "none")
            /\ UNCHANGED <<labMembers, currentUser, clockOutModal>>
    /\ UNCHANGED <<vaultVars, setupModal, manageModal, statusBar, persisted>>
    /\ UNCHANGED featureVars

\* What the open modal's submit handler awaits once `task` has moved on to `next`
\* (Null when the clockOut has ended).
Awaited(task, next) == IF modalTask = Some(task) THEN next ELSE modalTask

\* A field of the ClockOutModal is edited while the clockOut it has submitted
\* awaits createFolder: clockOut was handed the modal's own formData object, so
\* the edit shows in its handoffData.
FormEdited(data) ==
    /\ clockOutModal
    /\ modalTask # Null
    /\ modalTask[1].pc = "createFolder"
    /\ modalTask[1].data # Some(data)
    /\ pending' = Continue(modalTask[1], [modalTask[1] EXCEPT !.data = Some(data)])
    /\ modalTask' = Some([modalTask[1] EXCEPT !.data = Some(data)])
    /\ last' = Event("formEdited", "none")
    /\ UNCHANGED <<settingsVars, now, vaultVars, modalVars, closedLog, statusBar,
                   persisted>>
    /\ UNCHANGED featureVars

\* vault.createFolder has settled.  It throws when the folder exists by now or the
\* write fails (ok = FALSE): saveHandoffNote and clockOut then reject, and nothing
\* after the await runs.
ClockOutFolderCreated(task, ok) ==
    /\ task.op = "clockOut"
    /\ task.pc = "createFolder"
    /\ IF ok /\ ~folderExists
       THEN /\ folderExists' = TRUE
            /\ pending' = Continue(task, CreateTask(task.sess[1], task.data[1], labMembers))
            /\ modalTask' = Awaited(task, Some(CreateTask(task.sess[1], task.data[1],
                                                          labMembers)))
            /\ last' = Event("folderCreated", "none")
       ELSE /\ pending' = Resume(task)
            /\ modalTask' = Awaited(task, Null)
            /\ last' = Event("clockOutRejected", "none")
            /\ UNCHANGED folderExists
    /\ UNCHANGED <<settingsVars, now, docs, modalVars, closedLog, statusBar, persisted>>
    /\ UNCHANGED featureVars

\* Variant: a failed write puts the session back among the active ones.
ClockOutDocCreated_RollsBack(task, ok) ==
    /\ task.op = "clockOut"
    /\ task.pc = "create"
    /\ IF ok /\ task.path[1] \notin {doc.path : doc \in docs}
       THEN /\ docs' = docs \cup {[path |-> task.path[1], content |-> task.content[1]]}
            /\ persisted' = saveData(labMembers, currentUser, activeSessions,
                                     sessionHistory)
            /\ pending' = Continue(task, [task EXCEPT !.pc = "saveSettings"])
            /\ modalTask' = Awaited(task, Some([task EXCEPT !.pc = "saveSettings"]))
            /\ last' = Event("docCreated", "none")
            /\ UNCHANGED <<activeSessions, sessionHistory>>
       ELSE /\ pending' = Resume(task)
            /\ modalTask' = Awaited(task, Null)
            /\ last' = Event("clockOutRejected", "none")
            /\ sessionHistory' = SubSeq(sessionHistory, 1, Len(sessionHistory) - 1)
            /\ activeSessions' = Append(activeSessions,
                                        NewSession(task.sess[1].userId,
                                                   task.sess[1].clockInTime))
            /\ UNCHANGED <<docs, persisted>>
    /\ UNCHANGED <<labMembers, currentUser, now, folderExists, modalVars, closedLog,
                   statusBar>>
    /\ UNCHANGED featureVars

\* vault.create has settled.  It throws when the path is taken or the write fails.
ClockOutDocCreated(task, ok) ==
    /\ task.op = "clockOut"
    /\ task.pc = "create"
    /\ IF ok /\ task.path[1] \notin {doc.path : doc \in docs}
       THEN /\ docs' = docs \cup {[path |-> task.path[1], content |-> task.content[1]]}
            /\ persisted' = saveData(labMembers, currentUser, activeSessions,
                                     sessionHistory)
            /\ pending' = Continue(task, [task EXCEPT !.pc = "saveSettings"])
            /\ modalTask' = Awaited(task, Some([task EXCEPT !.pc = "saveSettings"]))
            /\ last' = Event("docCreated", "none")
       ELSE /\ pending' = Resume(task)
            /\ modalTask' = Awaited(task, Null)
            /\ last' = Event("clockOutRejected", "none")
            /\ UNCHANGED <<docs, persisted>>
    /\ UNCHANGED <<settingsVars, now, folderExists, modalVars, closedLog, statusBar>>
    /\ UNCHANGED featureVars

\* Variant: the Notice of clockOut is shown whether or not the save succeeded.
ClockOutSaved_AlwaysNotifies(task, ok) ==
    /\ task.op = "clockOut"
    /\ task.pc = "saveSettings"
    /\ pending' = Resume(task)
    /\ modalTask' = Awaited(task, Null)
    /\ last' = Event("clockOutSaved", "ClockedOut")
    /\ clockOutModal' = IF modalTask = Some(task) /\ ok THEN FALSE ELSE clockOutModal
    /\ UNCHANGED <<settingsVars, now, vaultVars, setupModal, manageModal, closedLog,
                   statusBar, persisted>>
    /\ UNCHANGED featureVars

\* saveSettings() of clockOut has settled: the Notice, then close() of the modal
\* whose submit handler awaited this clockOut.
ClockOutSaved(task, ok) ==
    /\ task.op = "clockOut"
    /\ task.pc = "saveSettings"
    /\ pending' = Resume(task)
    /\ modalTask' = Awaited(task, Null)
    /\ IF ok
       THEN /\ last' = Event("clockOutSaved", "ClockedOut")
            /\ clockOutModal' = IF modalTask = Some(task) THEN FALSE ELSE clockOutModal
       ELSE /\ last' = Event("clockOutSaveRejected", "none")
            /\ UNCHANGED clockOutModal
    /\ UNCHANGED <<settingsVars, now, vaultVars, setupModal, manageModal, closedLog,
                   statusBar, persisted>>
    /\ UNCHANGED featureVars

(***************************************************************************)
(* Status bar                                                              *)
(***************************************************************************)
\* Variant: the refresh drops the sessions it has shown.
UpdateStatusBar_DropsShown(t) ==
    /\ statusBar' = StatusText(activeSessions, currentUser, t)
    /\ activeSessions' = IF isUserClockedIn THEN << >> ELSE activeSessions
    /\ now' = IF isUserClockedIn THEN t ELSE now
    /\ last' = Event("statusBar", "none")
    /\ UNCHANGED <<labMembers, currentUser, sessionHistory, vaultVars, modalVars,
                   pending, closedLog, persisted, modalTask>>
    /\ UNCHANGED featureVars

\* The 30-second interval: updateStatusBar.  t is the reading of moment(), taken
\* when there is a session to show the duration of.
UpdateStatusBar(t) ==
    /\ statusBar' = StatusText(activeSessions, currentUser, t)
    /\ now' = IF isUserClockedIn THEN t ELSE now
    /\ last' = Event("statusBar", "none")
    /\ UNCHANGED <<settingsVars, vaultVars, modalVars, pending, closedLog, persisted,
                   modalTask>>
    /\ UNCHANGED featureVars

(***************************************************************************)
(* UserSetupModal.  The model follows one instance of each modal class,    *)
(* the one opened last.                                                    *)
(***************************************************************************)
\* The 'set-lab-identity' command: onOpen fills the dropdown from the roster.
SetupOpen ==
    /\ NoModal
    /\ setupModal' = Some(MemberIds(labMembers))
    /\ last' = Event("modal", "none")
    /\ UNCHANGED <<settingsVars, now, vaultVars, clockOutModal, manageModal, pending,
                   closedLog, statusBar, modalTask, persisted>>
    /\ UNCHANGED featureVars

\* The modal is dismissed.
SetupClose ==
    /\ setupModal # Null
    /\ setupModal' = Null
    /\ last' = Event("modal", "none")
    /\ UNCHANGED <<settingsVars, now, vaultVars, clockOutModal, manageModal, pending,
                   closedLog, statusBar, modalTask, persisted>>
    /\ UNCHANGED featureVars

\* dropdown.onChange with one of the options the dropdown was filled with.
SetupSelect(value) ==
    /\ setupModal # Null
    /\ value \in setupModal[1]
    /\ CanSuspend
    /\ currentUser' = value
    /\ persisted' = saveData(labMembers, currentUser', activeSessions, sessionHistory)
    /\ pending' = Suspend(SaveTask("select"))
    /\ last' = Event("select", "none")
    /\ UNCHANGED <<labMembers, activeSessions, sessionHistory, now, vaultVars,
                   modalVars, closedLog, statusBar, modalTask>>
    /\ UNCHANGED featureVars

\* name.trim() and id.trim().toLowerCase() of the two add forms.
NormName(rawName) == Trim(rawName)

\* Variant: the id keeps its case.
NormId_KeepsCase(rawId) == Trim(rawId)

NormId(rawId) == ToLowerCase(Trim(rawId))

PushMember(members, name, id) == Append(members, [name |-> name, id |-> id])

\* 'Add me & set as current user'.
SetupAddMe(rawName, rawId) ==
    /\ setupModal # Null
    /\ LET name == NormName(rawName)
           id == NormId(rawId)
       IN IF name = << >> \/ id = << >>
          THEN /\ last' = Event("addMe", "InvalidInput")
               /\ UNCHANGED <<labMembers, currentUser, pending, persisted>>
          ELSE IF HasMemberId(labMembers, id)
          THEN /\ last' = Event("addMe", "DuplicateId")
               /\ UNCHANGED <<labMembers, currentUser, pending, persisted>>
          ELSE /\ CanSuspend
               /\ labMembers' = PushMember(labMembers, name, id)
               /\ currentUser' = id
               /\ persisted' = saveData(labMembers', currentUser', activeSessions,
                                        sessionHistory)
               /\ pending' = Suspend(SaveTask("addMe"))
               /\ last' = Event("addMe", "none")
    /\ UNCHANGED <<activeSessions, sessionHistory, now, vaultVars, modalVars, closedLog,
                   statusBar, modalTask>>
    /\ UNCHANGED featureVars

\* saveSettings() of the dropdown or of 'Add me' has settled: Notice and close().
SetupSaved(task, ok) ==
    /\ task.op \in {"select", "addMe"}
    /\ pending' = Resume(task)
    /\ IF ok
       THEN /\ last' = Event(task.op \o "Saved", "Welcome")
            /\ setupModal' = Null
       ELSE /\ last' = Event(task.op \o "Rejected", "none")
            /\ UNCHANGED setupModal
    /\ UNCHANGED <<settingsVars, now, vaultVars, clockOutModal, manageModal, closedLog,
                   statusBar, modalTask, persisted>>
    /\ UNCHANGED featureVars

(***************************************************************************)
(* ManageMembersModal                                                      *)
(***************************************************************************)
\* The 'manage-lab-members' command: onOpen renders the roster.
ManageOpen ==
    /\ NoModal
    /\ manageModal' = Some(labMembers)
    /\ last' = Event("modal", "none")
    /\ UNCHANGED <<settingsVars, now, vaultVars, setupModal, clockOutModal, pending,
                   closedLog, statusBar, modalTask, persisted>>
    /\ UNCHANGED featureVars

ManageClose ==
    /\ manageModal # Null
    /\ manageModal' = Null
    /\ last' = Event("modal", "none")
    /\ UNCHANGED <<settingsVars, now, vaultVars, setupModal, clockOutModal, pending,
                   closedLog, statusBar, modalTask, persisted>>
    /\ UNCHANGED featureVars

\* labMembers.splice(index, 1) with the index the button was rendered with.
RemoveAt(members, index) == Splice(members, index)

\* Variant: Remove clears the identity whoever is removed.
IdentityAfterRemove_Always(user, member) == Null

\* The identity after the Remove button rendered for `member` has run.
IdentityAfterRemove(user, member) == IF user = member.id THEN Null ELSE user

\* The Remove button of row `index` of the list as it was last rendered.
ManageRemove(index) ==
    /\ manageModal # Null
    /\ index \in 1..Len(manageModal[1])
    /\ CanSuspend
    /\ labMembers' = RemoveAt(labMembers, index)
    /\ currentUser' = IdentityAfterRemove(currentUser, manageModal[1][index])
    /\ persisted' = saveData(labMembers', currentUser', activeSessions, sessionHistory)
    /\ pending' = Suspend(SaveTask("remove"))
    /\ last' = Event("remove", "none")
    /\ UNCHANGED <<activeSessions, sessionHistory, now, vaultVars, modalVars, closedLog,
                   statusBar, modalTask>>
    /\ UNCHANGED featureVars

\* 'Add Member'.
ManageAdd(rawName, rawId) ==
    /\ manageModal # Null
    /\ LET name == NormName(rawName)
           id == NormId(rawId)
       IN IF name = << >> \/ id = << >>
          THEN /\ last' = Event("addMember", "InvalidInput")
               /\ UNCHANGED <<labMembers, pending, persisted>>
          ELSE IF HasMemberId(labMembers, id)
          THEN /\ last' = Event("addMember", "DuplicateId")
               /\ UNCHANGED <<labMembers, pending, persisted>>
          ELSE /\ CanSuspend
               /\ labMembers' = PushMember(labMembers, name, id)
               /\ persisted' = saveData(labMembers', currentUser, activeSessions,
                                        sessionHistory)
               /\ pending' = Suspend(SaveTask("addMember"))
               /\ last' = Event("addMember", "none")
    /\ UNCHANGED <<currentUser, activeSessions, sessionHistory, now, vaultVars,
                   modalVars, closedLog, statusBar, modalTask>>
    /\ UNCHANGED featureVars

\* saveSettings() of Remove or of 'Add Member' has settled: the Notice of the add,
\* then render() redraws the list from the roster as it is by now.
ManageSaved(task, ok) ==
    /\ task.op \in {"remove", "addMember"}
    /\ pending' = Resume(task)
    /\ IF ok
       THEN /\ last' = Event(task.op \o "Saved",
                             IF task.op = "addMember" THEN "Added" ELSE "none")
            /\ manageModal' = IF manageModal # Null THEN Some(labMembers) ELSE Null
       ELSE /\ last' = Event(task.op \o "Rejected", "none")
            /\ UNCHANGED manageModal
    /\ UNCHANGED <<settingsVars, now, vaultVars, setupModal, clockOutModal, closedLog,
                   statusBar, modalTask, persisted>>
    /\ UNCHANGED featureVars
(***************************************************************************)
(* Pinned notes                                                            *)
(***************************************************************************)
\* Array.indexOf: the first position of path in files, 0 when it is not there.
IndexOf(files, path) ==
    IF \E i \in 1..Len(files) : files[i] = path
    THEN CHOOSE i \in 1..Len(files) :
            files[i] = path /\ \A j \in 1..(i - 1) : files[j] # path
    ELSE 0

Includes(files, path) == IndexOf(files, path) > 0

\* Variant: the path is pushed whether or not it is pinned.
Toggled_AlwaysPush(files, path) == Append(files, path)

\* pinnedFiles after togglePin(path): spliced out where indexOf finds it, pushed
\* when indexOf does not find it.
Toggled(files, path) ==
    IF IndexOf(files, path) > 0
    THEN Splice(files, IndexOf(files, path))
    ELSE Append(files, path)

\* The toggles of each path since it was last absent, after a step that leaves
\* the pinned files as `files` and has toggled the paths in `toggled`.
SinceAbsent(files, toggled) ==
    [path \in Paths |->
        IF ~Includes(files, path) THEN 0
        ELSE IF path \in toggled THEN toggles[path] + 1
        ELSE toggles[path]]

\* togglePin up to its await of saveSettings(): the context-menu item of a file,
\* the 'toggle-pin-current-file' command, the Unpin item of the view.
TogglePin(path) ==
    /\ NoModal
    /\ CanSuspend
    /\ pinnedFiles' = Toggled(pinnedFiles, path)
    /\ toggles' = SinceAbsent(pinnedFiles', {path})
    /\ last' = Event("togglePin",
                     IF IndexOf(pinnedFiles, path) > 0 THEN "Unpinned" ELSE "Pinned")
    /\ persisted' = saveData(labMembers, currentUser, activeSessions, sessionHistory)
    /\ pending' = Suspend(SaveTask("togglePin"))
    /\ UNCHANGED <<handoffVars, settingsTab, popupVars>>

\* saveSettings() of togglePin has settled: the view is rendered again.
TogglePinSaved(task) ==
    /\ task.op = "togglePin"
    /\ pending' = Resume(task)
    /\ last' = Event("togglePinSaved", "none")
    /\ UNCHANGED <<handoffVars, persisted, featureVars>>

\* The settings tab is opened: display() lists the pinned files.
SettingsOpen ==
    /\ NoModal
    /\ settingsTab' = Some(pinnedFiles)
    /\ last' = Event("modal", "none")
    /\ UNCHANGED <<handoffVars, pending, persisted, pinVars, popupVars>>

SettingsClose ==
    /\ settingsTab # Null
    /\ settingsTab' = Null
    /\ last' = Event("modal", "none")
    /\ UNCHANGED <<handoffVars, pending, persisted, pinVars, popupVars>>

\* The Remove button of row `index` of the pinned files as they were last listed:
\* pinnedFiles.splice(index, 1), up to the await of saveSettings().
PinnedRemove(index) ==
    /\ settingsTab # Null
    /\ index \in 1..Len(settingsTab[1])
    /\ CanSuspend
    /\ pinnedFiles' = Splice(pinnedFiles, index)
    /\ toggles' = SinceAbsent(pinnedFiles', {})
    /\ last' = Event("pinRemove", "none")
    /\ persisted' = saveData(labMembers, currentUser, activeSessions, sessionHistory)
    /\ pending' = Suspend(SaveTask("pinRemove"))
    /\ UNCHANGED <<handoffVars, settingsTab, popupVars>>

\* 'Clear all pinned files', shown when the list was not empty at display().
PinnedClear ==
    /\ settingsTab # Null
    /\ settingsTab[1] # << >>
    /\ CanSuspend
    /\ pinnedFiles' = << >>
    /\ toggles' = SinceAbsent(pinnedFiles', {})
    /\ last' = Event("pinClear", "none")
    /\ persisted' = saveData(labMembers, currentUser, activeSessions, sessionHistory)
    /\ pending' = Suspend(SaveTask("pinClear"))
    /\ UNCHANGED <<handoffVars, settingsTab, popupVars>>

\* saveSettings() of Remove or of the clear has settled: display() lists the
\* pinned files as they are by now.
PinnedSaved(task) ==
    /\ task.op \in {"pinRemove", "pinClear"}
    /\ pending' = Resume(task)
    /\ settingsTab' = IF settingsTab # Null THEN Some(pinnedFiles) ELSE Null
    /\ last' = Event(task.op \o "Saved", "none")
    /\ UNCHANGED <<handoffVars, persisted, pinVars, popupVars>>

(***************************************************************************)
(* Popup window: pinned messages                                           *)
(***************************************************************************)
\* Folder names are sequences of characters; what may be typed into the
\* 'Messages folder' field, and the folders the vault's markdown files are in.
FolderInputs == { <<"P">>, <<"P", "/">>, <<"I">> }
Folders == { <<"P">>, <<"I">> }
Basenames == {"m1", "m2"}

\* What may be typed into the 'Auto-delete time (hours)' field.
HoursInputs == { <<"4", "8">>, <<"0">>, <<"x">> }

\* messagesFolder.replace(/\/+$/, "")
RECURSIVE StripSlashes(_)
StripSlashes(folder) ==
    IF folder # << >> /\ folder[Len(folder)] = "/"
    THEN StripSlashes(SubSeq(folder, 1, Len(folder) - 1))
    ELSE folder

\* A number is Some(n); NaN is Null.
NaN == Null

DigitValue(c) ==
    CASE c = "0" -> 0 [] c = "1" -> 1 [] c = "2" -> 2 [] c = "3" -> 3 [] c = "4" -> 4
      [] c = "5" -> 5 [] c = "6" -> 6 [] c = "7" -> 7 [] c = "8" -> 8 [] c = "9" -> 9

IsDigit(c) == c \in {"0", "1", "2", "3", "4", "5", "6", "7", "8", "9"}

\* parseFloat of a string of digits and letters: the number its leading digits
\* spell, NaN when it does not start with a digit.
RECURSIVE LeadingNumber(_, _)
LeadingNumber(raw, acc) ==
    IF raw # << >> /\ IsDigit(Head(raw))
    THEN LeadingNumber(Tail(raw), 10 * acc + DigitValue(Head(raw)))
    ELSE acc

parseFloat(raw) ==
    IF raw # << >> /\ IsDigit(Head(raw)) THEN Some(LeadingNumber(raw, 0)) ELSE NaN

\* The markdown files whose path starts with the folder path and a slash.
InFolder(files, folder) == {file \in files : file.folder = StripSlashes(folder)}

\* The files deleteExpiredMessages deletes at the reading t of Date.now() under
\* the settings object `settings`.
Expired(files, settings, t) ==
    IF ~settings.autoDeleteEnabled
    THEN {}
    ELSE {file \in InFolder(files, settings.messagesFolder) :
             t - file.ctime > settings.autoDeleteHours * TicksPerHour}

SweepTask(pc, todo, loaded) ==
    Task("showMessages", pc, Null, Some([todo |-> todo, loaded |-> loaded]), Null, Null)

\* A markdown file appears in the vault; t is the reading of the clock that
\* becomes its creation time.
CreateMessage(folder, basename, t) ==
    /\ Cardinality(messages) < MaxMessages
    /\ \A file \in messages : ~(file.folder = folder /\ file.basename = basename)
    /\ now' = t
    /\ messages' = messages \cup {[folder |-> folder, basename |-> basename, ctime |-> t]}
    /\ last' = Event("createMessage", "none")
    /\ UNCHANGED <<settingsVars, vaultVars, modalVars, closedLog, modalTask, statusBar,
                   pending, persisted, pinVars, settingsTab, popupWindow, popupSettings,
                   seenFiles, popupModal>>

\* The 'open-pinned-messages' command: showMessages up to its first await.  With
\* nothing to delete the sweep returns at once and loadMessages lists the files.
ShowMessages(t) ==
    /\ NoModal
    /\ CanSuspend
    /\ now' = t
    /\ IF Expired(messages, popupSettings, t) # {}
       THEN /\ pending' = Suspend(SweepTask("delete", Expired(messages, popupSettings, t),
                                            {}))
            /\ last' = Event("showMessages", "none")
       ELSE IF InFolder(messages, popupSettings.messagesFolder) # {}
       THEN /\ pending' = Suspend(SweepTask("read", {},
                                    InFolder(messages, popupSettings.messagesFolder)))
            /\ last' = Event("showMessages", "none")
       ELSE /\ last' = Event("showMessages", "NoMessages")
            /\ UNCHANGED pending
    /\ UNCHANGED <<settingsVars, vaultVars, modalVars, closedLog, modalTask, statusBar,
                   persisted, pinVars, settingsTab, popupVars>>

\* vault.delete(file) of the sweep has settled, and with it the deletion of the
\* file's SeenMessages companion: the loop goes on to the next expired file or,
\* after the last, showMessages goes on to loadMessages.  A file that another
\* sweep has deleted meanwhile is either passed over or makes the sweep reject.
SweepDeleted(task, file, ok) ==
    /\ task.op = "showMessages"
    /\ task.pc = "delete"
    /\ file \in task.data[1].todo
    /\ file \in messages => ok
    /\ IF ~ok
       THEN /\ pending' = Resume(task)
            /\ last' = Event("sweepRejected", "none")
            /\ UNCHANGED <<messages, seenFiles>>
       ELSE /\ messages' = messages \ {file}
            /\ seenFiles' = IF file \in messages THEN seenFiles \ {file.basename}
                            ELSE seenFiles
            /\ IF task.data[1].todo # {file}
               THEN /\ pending' = Continue(task,
                                    SweepTask("delete", task.data[1].todo \ {file}, {}))
                    /\ last' = Event("sweepDeleted", "none")
               ELSE IF InFolder(messages', popupSettings.messagesFolder) # {}
               THEN /\ pending' = Continue(task,
                                    SweepTask("read", {},
                                       InFolder(messages', popupSettings.messagesFolder)))
                    /\ last' = Event("sweepDeleted", "AutoDeleted")
               ELSE /\ pending' = Resume(task)
                    /\ last' = Event("sweepDeleted", "NoMessages")
    /\ UNCHANGED <<handoffVars, persisted, pinVars, settingsTab, popupWindow,
                   popupSettings, popupModal>>

\* The cachedRead calls of loadMessages have settled: the modal opens on the
\* messages listed, with the hours that 'Expiring On' is computed from.
MessagesLoaded(task) ==
    /\ task.op = "showMessages"
    /\ task.pc = "read"
    /\ pending' = Resume(task)
    /\ popupModal' = Some([messages |-> task.data[1].loaded,
                           autoDeleteHours |-> popupSettings.autoDeleteHours])
    /\ last' = Event("messagesShown", "none")
    /\ UNCHANGED <<handoffVars, persisted, pinVars, settingsTab, popupWindow,
                   popupSettings, messages, seenFiles>>

PopupClose ==
    /\ popupModal # Null
    /\ popupModal' = Null
    /\ last' = Event("modal", "none")
    /\ UNCHANGED <<handoffVars, pending, persisted, pinVars, settingsTab, popupWindow,
                   popupSettings, messages, seenFiles>>

\* 'Mark as Seen' on a message of the open modal, the template being in the
\* vault: up to the await of the template's read.
MarkSeen(message) ==
    /\ popupModal # Null
    /\ message \in popupModal[1].messages
    /\ CanSuspend
    /\ pending' = Suspend(Task("markSeen", "read", Null, Some(message), Null, Null))
    /\ last' = Event("markSeen", "none")
    /\ UNCHANGED <<handoffVars, persisted, featureVars>>

\* The read of the template has settled: SeenMessages/<title>.md is created
\* unless it exists.
MarkSeenRead(task) ==
    /\ task.op = "markSeen"
    /\ pending' = Resume(task)
    /\ seenFiles' = seenFiles \cup {task.data[1].basename}
    /\ last' = Event("markSeenCreated", "none")
    /\ UNCHANGED <<handoffVars, persisted, pinVars, settingsTab, popupWindow,
                   popupSettings, messages, popupModal>>

\* The 'Messages folder' field of the settings tab is changed.
PopupSetFolder(value) ==
    /\ settingsTab # Null
    /\ CanSuspend
    /\ popupWindow' = [popupWindow EXCEPT !.messagesFolder = value]
    /\ persisted' = saveData(labMembers, currentUser, activeSessions, sessionHistory)
    /\ pending' = Suspend(SaveTask("popupSetting"))
    /\ last' = Event("popupFolder", "none")
    /\ UNCHANGED <<handoffVars, pinVars, settingsTab, popupSettings, messages, seenFiles,
                   popupModal>>

\* The 'Auto-delete messages' toggle of the settings tab is flipped.
PopupToggleAutoDelete ==
    /\ settingsTab # Null
    /\ CanSuspend
    /\ popupWindow' = [popupWindow EXCEPT !.autoDeleteEnabled = ~@]
    /\ persisted' = saveData(labMembers, currentUser, activeSessions, sessionHistory)
    /\ pending' = Suspend(SaveTask("popupSetting"))
    /\ last' = Event("popupAutoDelete", "none")
    /\ UNCHANGED <<handoffVars, pinVars, settingsTab, popupSettings, messages, seenFiles,
                   popupModal>>

\* The 'Auto-delete time (hours)' field of the settings tab is changed: the value
\* is taken when parseFloat reads a number above zero from it.
PopupSetHours(raw) ==
    /\ settingsTab # Null
    /\ IF parseFloat(raw) # NaN /\ parseFloat(raw)[1] > 0
       THEN /\ CanSuspend
            /\ popupWindow' = [popupWindow EXCEPT !.autoDeleteHours = parseFloat(raw)[1]]
            /\ persisted' = saveData(labMembers, currentUser, activeSessions,
                                     sessionHistory)
            /\ pending' = Suspend(SaveTask("popupSetting"))
            /\ last' = Event("popupHours", "none")
       ELSE /\ last' = Event("popupHours", "Ignored")
            /\ UNCHANGED <<popupWindow, persisted, pending>>
    /\ UNCHANGED <<handoffVars, pinVars, settingsTab, popupSettings, messages, seenFiles,
                   popupModal>>

\* saveSettings() of a change in the settings tab has settled.
PopupSettingSaved(task) ==
    /\ task.op = "popupSetting"
    /\ pending' = Resume(task)
    /\ last' = Event("popupSettingSaved", "none")
    /\ UNCHANGED <<handoffVars, persisted, featureVars>>

(***************************************************************************)
(* Specifications                                                          *)
(***************************************************************************)
\* What new Date() may read next: the clock does not run backwards, and two
\* handlers may run within one reading of it.
Readings == {t \in {now, now + 1} : t <= MaxTime}

\* Every command, button and I/O completion of the feature, in any order.  The
\* awaited writes succeed unless the vault refuses them (folder or path taken).
Next ==
    \/ \E t \in Readings : ClockIn(t)
    \/ \E task \in BagToSet(pending) : ClockInSaved(task, TRUE)
    \/ ClockOutCommand
    \/ ClockOutCancel
    \/ \E t \in Readings, data \in FormInputs : ClockOutSubmit(t, data, MaxClosed)
    \/ \E task \in BagToSet(pending) : ClockOutFolderCreated(task, TRUE)
    \/ \E task \in BagToSet(pending) : ClockOutDocCreated(task, TRUE)
    \/ \E task \in BagToSet(pending) : ClockOutSaved(task, TRUE)
    \/ SetupOpen
    \/ SetupClose
    \/ \E value \in {NormId(rawId) : rawId \in RawIds} : SetupSelect(value)
    \/ \E rawName \in RawNames, rawId \in RawIds : SetupAddMe(rawName, rawId)
    \/ \E task \in BagToSet(pending) : SetupSaved(task, TRUE)
    \/ ManageOpen
    \/ ManageClose
    \/ \E index \in 1..Len(labMembers) + 1 : ManageRemove(index)
    \/ \E rawName \in RawNames, rawId \in RawIds : ManageAdd(rawName, rawId)
    \/ \E task \in BagToSet(pending) : ManageSaved(task, TRUE)

Spec == Init /\ [][Next]_vars

\* One member adds themself, then clocks in and out MaxCycles times, one
\* operation after the other: each command and submit comes when the operation
\* before it has finished its writes.  The clock advances by one reading at every
\* clock-in and every clock-out.
Idle == pending = EmptyBag

NextCycles ==
    \/ SetupAddMe(<<"A">>, <<"a">>)
    \/ \E task \in BagToSet(pending) : SetupSaved(task, TRUE)
    \/ Idle /\ ClockIn(now + 1)
    \/ \E task \in BagToSet(pending) : ClockInSaved(task, TRUE)
    \/ Idle /\ ClockOutCommand
    \/ Idle /\ \E data \in FormInputs : ClockOutSubmit(now + 1, data, MaxCycles)
    \/ \E task \in BagToSet(pending) : ClockOutFolderCreated(task, TRUE)
    \/ \E task \in BagToSet(pending) : ClockOutDocCreated(task, TRUE)
    \/ \E task \in BagToSet(pending) : ClockOutSaved(task, TRUE)

SpecCycles == Init /\ [][NextCycles]_vars

\* The identity and roster dialogs alone: every order of their buttons and of
\* the completions of their saves, with no clock-in or clock-out in between.
NextRoster ==
    \/ SetupOpen
    \/ SetupClose
    \/ \E value \in {NormId(rawId) : rawId \in RawIds} : SetupSelect(value)
    \/ \E rawName \in RawNames, rawId \in RawIds : SetupAddMe(rawName, rawId)
    \/ \E task \in BagToSet(pending) : SetupSaved(task, TRUE)
    \/ ManageOpen
    \/ ManageClose
    \/ \E index \in 1..Len(labMembers) + 1 : ManageRemove(index)
    \/ \E rawName \in RawNames, rawId \in RawIds : ManageAdd(rawName, rawId)
    \/ \E task \in BagToSet(pending) : ManageSaved(task, TRUE)

SpecRoster == Init /\ [][NextRoster]_vars

\* One member's clock-ins and clock-outs where the vault may refuse or fail the
\* creation of the handoff folder and of the handoff document and the save of the
\* settings at the end of clockOut; the member may be removed from the roster and
\* may go on typing in the clock-out form after the submit.
NextFaults ==
    \/ SetupOpen
    \/ SetupClose
    \/ \E rawName \in RawNames, rawId \in {<< >>, <<"a">>} : SetupAddMe(rawName, rawId)
    \/ \E task \in BagToSet(pending) : SetupSaved(task, TRUE)
    \/ \E t \in Readings : ClockIn(t)
    \/ \E task \in BagToSet(pending) : ClockInSaved(task, TRUE)
    \/ ClockOutCommand
    \/ ClockOutCancel
    \/ \E t \in Readings, data \in FormInputs : ClockOutSubmit(t, data, MaxClosedFaults)
    \/ \E data \in FormEdits : FormEdited(data)
    \/ \E task \in BagToSet(pending), ok \in BOOLEAN : ClockOutFolderCreated(task, ok)
    \/ \E task \in BagToSet(pending), ok \in BOOLEAN : ClockOutDocCreated(task, ok)
    \/ \E task \in BagToSet(pending), ok \in BOOLEAN : ClockOutSaved(task, ok)
    \/ ManageOpen
    \/ ManageClose
    \/ \E index \in 1..Len(labMembers) : ManageRemove(index)
    \/ \E task \in BagToSet(pending) : ManageSaved(task, TRUE)

SpecFaults == Init /\ [][NextFaults]_vars

\* One member's clock-in and clock-out with the status bar's interval timer
\* firing at any point, on a clock that may stand still or advance by ninety
\* minutes or by a day between two readings.
Jumps == {0, 90 * TicksPerMinute, 24 * TicksPerHour}

ClockReadings == {t \in {now + jump : jump \in Jumps} : t <= MaxMinutes * TicksPerMinute}

NextClock ==
    \/ SetupAddMe(<<"A">>, <<"a">>)
    \/ \E task \in BagToSet(pending) : SetupSaved(task, TRUE)
    \/ \E t \in ClockReadings : ClockIn(t)
    \/ \E task \in BagToSet(pending) : ClockInSaved(task, TRUE)
    \/ ClockOutCommand
    \/ \E t \in ClockReadings, data \in FormInputs : ClockOutSubmit(t, data, MaxClosed)
    \/ \E task \in BagToSet(pending) : ClockOutFolderCreated(task, TRUE)
    \/ \E task \in BagToSet(pending) : ClockOutDocCreated(task, TRUE)
    \/ \E task \in BagToSet(pending) : ClockOutSaved(task, TRUE)
    \/ \E t \in ClockReadings : UpdateStatusBar(t)

SpecClock == Init /\ [][NextClock]_vars

\* Pins toggled from the file menu and the view, and removed or cleared in the
\* settings tab, with the saves completing at any later point.
NextPins ==
    \/ SetupClose
    \/ \E path \in Paths : TogglePin(path)
    \/ \E task \in BagToSet(pending) : TogglePinSaved(task)
    \/ SettingsOpen
    \/ SettingsClose
    \/ \E index \in 1..Cardinality(Paths) : PinnedRemove(index)
    \/ PinnedClear
    \/ \E task \in BagToSet(pending) : PinnedSaved(task)

SpecPins == Init /\ [][NextPins]_vars

\* Pinned messages appearing in the vault, shown and swept on a clock that may
\* stand still or advance by the default expiry time or one tick more, with the
\* auto-delete settings changed in the settings tab.
MessageReadings ==
    {t \in {now, now + DefaultHours * TicksPerHour, now + DefaultHours * TicksPerHour + 1} :
        t <= MaxMessageHours * TicksPerHour}

\* The messages the open modal pages through.
Shown == IF popupModal = Null THEN {} ELSE popupModal[1].messages

NextPopup ==
    \/ SetupClose
    \/ \E folder \in Folders, basename \in Basenames, t \in MessageReadings :
          CreateMessage(folder, basename, t)
    \/ \E t \in MessageReadings : ShowMessages(t)
    \/ \E task \in {sweep \in BagToSet(pending) : sweep.pc = "delete"}, ok \in BOOLEAN :
          \E file \in task.data[1].todo : SweepDeleted(task, file, ok)
    \/ \E task \in BagToSet(pending) : MessagesLoaded(task)
    \/ PopupClose
    \/ \E message \in Shown : MarkSeen(message)
    \/ \E task \in BagToSet(pending) : MarkSeenRead(task)
    \/ SettingsOpen
    \/ SettingsClose
    \/ \E value \in FolderInputs : PopupSetFolder(value)
    \/ PopupToggleAutoDelete
    \/ \E raw \in HoursInputs : PopupSetHours(raw)
    \/ \E task \in BagToSet(pending) : PopupSettingSaved(task)

SpecPopup == Init /\ [][NextPopup]_vars

(***************************************************************************)
(* Properties                                                              *)
(***************************************************************************)
Last(seq) == seq[Len(seq)]

\* C1: in every reachable state activeSessions holds at most one session per
\* userId, whatever the order of clock-in, clock-out, identity and roster events,
\* also of those that come while an earlier operation awaits its write.
C1_OneActiveSessionPerUser ==
    \A i, j \in 1..Len(activeSessions) :
        activeSessions[i].userId = activeSessions[j].userId => i = j

\* Two members are clocked in while an operation still awaits its write.
C1_Witness == Len(activeSessions) = 2 /\ pending # EmptyBag

\* C2: in every reachable state sessionHistory holds at most 100 sessions.
C2_HistoryBounded == Len(sessionHistory) <= 100

\* More sessions have been closed than the history keeps, and it is full.
C2_Witness == Len(closedLog) > 100 /\ Len(sessionHistory) = 100

\* C3: after k clock-in/clock-out cycles from an empty history, sessionHistory is
\* the last min(k, 100) closed sessions in the order they were closed.
C3_HistoryIsMostRecentClosed ==
    LET k == Len(closedLog)
        kept == IF k < 100 THEN k ELSE 100
    IN /\ Len(sessionHistory) = kept
       /\ \A i \in 1..kept : sessionHistory[i] = closedLog[k - kept + i]

\* 105 cycles: the history starts at the sixth session closed.
C3_Witness ==
    /\ Len(closedLog) = 105
    /\ Len(sessionHistory) = 100
    /\ sessionHistory[1] = closedLog[6]
    /\ sessionHistory[1] # closedLog[1]

\* C4: a clock-out (the command, or the submit of the form) while the current user
\* has no active session, also with no identity configured, reports
\* NoActiveSession, leaves activeSessions and sessionHistory as they were, and
\* neither creates a handoff document nor starts the write of one.
C4_ClockOutWithoutSession ==
    [][ (last'.op \in {"clockOutCommand", "clockOut"}
            /\ ~(currentUser # Null /\ HasSession(activeSessions, currentUser)))
        => /\ last'.notice = "NoActiveSession"
           /\ UNCHANGED <<activeSessions, sessionHistory, docs, pending>> ]_vars

\* The form is submitted again after its session has been closed.
C4_Witness ==
    /\ last = Event("clockOut", "NoActiveSession")
    /\ sessionHistory # << >>
    /\ activeSessions # << >>

\* C5: clockIn of a configured user with no active session appends exactly the
\* session {that user, clockInTime = now, no clockOutTime, no handoffNote}; while
\* that session is active every further clockIn of the user reports AlreadyActive
\* and changes neither activeSessions nor sessionHistory, also before the first
\* clockIn's settings save has completed.
C5_ClockInOnceThenAlreadyActive ==
    [][ (last'.op = "clockIn" /\ currentUser # Null)
        => IF HasSession(activeSessions, currentUser)
           THEN /\ last'.notice = "AlreadyActive"
                /\ UNCHANGED <<activeSessions, sessionHistory>>
           ELSE /\ last'.notice = "none"
                /\ activeSessions' = Append(activeSessions,
                       [userId |-> currentUser, clockInTime |-> now',
                        clockOutTime |-> Null, handoffNote |-> Null])
                /\ UNCHANGED sessionHistory ]_vars

\* A second clockIn was refused while the save of the first is still awaited.
C5_Witness ==
    /\ last = Event("clockIn", "AlreadyActive")
    /\ SaveTask("clockIn") \in BagToSet(pending)

\* C6: clockIn with no identity configured reports NotSetUp and leaves the
\* roster, currentUser, activeSessions and sessionHistory as they were.
C6_ClockInNotSetUp ==
    [][ (last'.op = "clockIn" /\ currentUser = Null)
        => /\ last'.notice = "NotSetUp"
           /\ UNCHANGED <<labMembers, currentUser, activeSessions, sessionHistory>> ]_vars

\* clockIn was refused after the identity had been removed from a roster that
\* still has a member.
C6_Witness == last = Event("clockIn", "NotSetUp") /\ labMembers # << >>

\* C7: a successful clockOut removes exactly one session from activeSessions, the
\* current user's, leaving the others in place and order, and appends that session
\* (same userId and clockInTime, clockOutTime and handoffNote now set) as the last
\* element of sessionHistory, in front of which the history is as before (less its
\* oldest session when it was full).
C7_ClockOutMovesOneSession ==
    [][ (last'.op = "clockOut" /\ last'.notice = "none")
        => \E i \in 1..Len(activeSessions) :
              /\ activeSessions[i].userId = currentUser
              /\ Len(activeSessions') = Len(activeSessions) - 1
              /\ \A j \in 1..Len(activeSessions') :
                    activeSessions'[j] = activeSessions[IF j < i THEN j ELSE j + 1]
              /\ sessionHistory' # << >>
              /\ Last(sessionHistory').userId = activeSessions[i].userId
              /\ Last(sessionHistory').clockInTime = activeSessions[i].clockInTime
              /\ Last(sessionHistory').clockOutTime = Some(now')
              /\ Last(sessionHistory').handoffNote # Null
              /\ SubSeq(sessionHistory', 1, Len(sessionHistory') - 1)
                    = IF Len(sessionHistory) < 100 THEN sessionHistory
                      ELSE Tail(sessionHistory) ]_vars

\* One of two clocked-in members has clocked out; the other is still active.
C7_Witness ==
    /\ last = Event("clockOut", "none")
    /\ Len(activeSessions) = 1
    /\ Len(sessionHistory) = 1
    /\ activeSessions[1].userId # sessionHistory[1].userId

\* C8 as claimed: every session in sessionHistory has clockOutTime strictly
\* greater than its clockInTime.
C8_ClockOutAfterClockIn ==
    \A i \in 1..Len(sessionHistory) :
        sessionHistory[i].clockOutTime[1] > sessionHistory[i].clockInTime

\* C8: every session in sessionHistory has a clockOutTime that is not earlier
\* than its clockInTime.
C8_ClockOutNotBeforeClockIn ==
    \A i \in 1..Len(sessionHistory) :
        /\ sessionHistory[i].clockOutTime # Null
        /\ sessionHistory[i].clockOutTime[1] >= sessionHistory[i].clockInTime

\* A session was opened and closed within one reading of the clock, after the
\* clock had advanced.
C8_Witness ==
    \E i \in 1..Len(sessionHistory) :
        /\ sessionHistory[i].clockInTime > 0
        /\ sessionHistory[i].clockOutTime[1] = sessionHistory[i].clockInTime

\* C9: right after a successful add of a member (either add form), no session in
\* activeSessions has the new member's id.
C9_NewMemberNotActive ==
    (last.op \in {"addMe", "addMember"} /\ last.notice = "none")
        => ~HasSession(activeSessions, Last(labMembers).id)

\* C10: clockIn creates a session only for the id of a member of the roster.
C10_ClockInOnlyForMembers ==
    (last = Event("clockIn", "none"))
        => HasMemberId(labMembers, Last(activeSessions).userId)

\* C11: in every reachable state no two members of the roster share an id,
\* whichever of the two add forms added them and however the adds interleave.
C11_UniqueMemberIds ==
    \A i, j \in 1..Len(labMembers) : labMembers[i].id = labMembers[j].id => i = j

\* A duplicate was refused by 'Add Member' while the roster holds two members,
\* one added by each form, and the saves of both adds are still awaited.
C11_Witness ==
    /\ Len(labMembers) = 2
    /\ SaveTask("addMe") \in BagToSet(pending)
    /\ SaveTask("addMember") \in BagToSet(pending)
    /\ last = Event("addMember", "DuplicateId")

\* C12: an add request (either form) whose name or id is empty after trimming is
\* rejected with InvalidInput, and otherwise one whose trimmed lower-cased id is
\* the id of a member is rejected with DuplicateId; a rejected request leaves the
\* roster and currentUser as they were.
C12_AddRejected ==
    [][ last'.op \in {"addMe", "addMember"}
        => \A rawName \in RawNames, rawId \in RawIds :
              (ManageAdd(rawName, rawId) \/ SetupAddMe(rawName, rawId))
              => LET invalid == Trim(rawName) = << >> \/ Trim(rawId) = << >>
                     duplicate == \E i \in 1..Len(labMembers) :
                                     labMembers[i].id = ToLowerCase(Trim(rawId))
                 IN /\ invalid => /\ last'.notice = "InvalidInput"
                                   /\ UNCHANGED <<labMembers, currentUser>>
                    /\ (~invalid /\ duplicate)
                          => /\ last'.notice = "DuplicateId"
                             /\ UNCHANGED <<labMembers, currentUser>> ]_vars

\* 'Add Member' was refused as a duplicate of the member who is the identity.
C12_Witness ==
    /\ last = Event("addMember", "DuplicateId")
    /\ Len(labMembers) = 1
    /\ currentUser = labMembers[1].id

\* C13: a Remove that takes the member who is the current identity off the roster
\* sets currentUser to null, any other Remove leaves currentUser as it was, and
\* both leave activeSessions and sessionHistory as they were.
C13_RemoveClearsOwnIdentity ==
    [][ last'.op = "remove"
        => /\ currentUser' =
                 IF currentUser \in MemberIds(labMembers) \ MemberIds(labMembers')
                 THEN Null ELSE currentUser
           /\ UNCHANGED <<activeSessions, sessionHistory>> ]_vars

\* C14: when the creation of the handoff folder or of the handoff document
\* fails during clockOut (a failed write, or a path that exists already), the
\* step leaves activeSessions and sessionHistory as clockOut had left them: the
\* closed session is still in sessionHistory with its clockOutTime and
\* handoffNote, and activeSessions is as it was.
C14_FailedWriteKeepsLedger ==
    [][ last'.op = "clockOutRejected"
        => /\ UNCHANGED <<activeSessions, sessionHistory>>
           /\ \E task \in BagToSet(pending) :
                 /\ pending' = Resume(task)
                 /\ \E i \in 1..Len(sessionHistory') :
                       /\ sessionHistory'[i] = task.sess[1]
                       /\ sessionHistory'[i].clockOutTime # Null
                       /\ sessionHistory'[i].handoffNote # Null ]_vars

\* The second clock-out of a member within one minute was rejected: its path is
\* the path of the first document, which is the only one in the vault, and both
\* sessions are in the history.
C14_Witness ==
    /\ last = Event("clockOutRejected", "none")
    /\ Len(sessionHistory) = 2
    /\ activeSessions = << >>
    /\ Cardinality(docs) = 1
    /\ \A i \in 1..2 :
          Minute(sessionHistory[i].clockOutTime[1]) = Minute(sessionHistory[1].clockOutTime[1])

\* C15: every error that ends an operation is reported in a Notice: NotSetUp,
\* AlreadyActive, NoActiveSession, InvalidInput, DuplicateId, and the failure to
\* write the handoff document during clockOut.
C15_EveryErrorReported ==
    [][ /\ (last'.op = "clockIn" /\ currentUser = Null) => last'.notice = "NotSetUp"
        /\ (last'.op = "clockIn" /\ isUserClockedIn) => last'.notice = "AlreadyActive"
        /\ (last'.op \in {"clockOutCommand", "clockOut"} /\ ~isUserClockedIn)
              => last'.notice = "NoActiveSession"
        /\ (last'.op \in {"addMe", "addMember"} /\ UNCHANGED labMembers)
              => last'.notice \in {"InvalidInput", "DuplicateId"}
        /\ last'.op = "clockOutRejected" => last'.notice # "none" ]_vars

\* C16: no ledger or roster operation makes its mutation while another operation
\* is still awaiting its document write or its settings save.
C16_OperationsNeverInterleave ==
    [][ (/\ last'.op \in {"clockIn", "clockOut", "select", "addMe", "addMember", "remove"}
         /\ settingsVars' # settingsVars)
        => pending = EmptyBag ]_vars

\* C17: whenever no operation is in flight, the settings last written out are the
\* settings in memory.
C17_PersistedWhenIdle ==
    (pending = EmptyBag)
        => persisted = saveData(labMembers, currentUser, activeSessions, sessionHistory)

\* C18: the periodic refresh of the status bar leaves labMembers, currentUser,
\* activeSessions and sessionHistory as they were, wherever it falls between the
\* steps of the other operations.
C18_StatusRefreshReadsOnly ==
    [][ last'.op = "statusBar"
        => UNCHANGED <<labMembers, currentUser, activeSessions, sessionHistory>> ]_vars

\* The refresh ran ninety minutes into a session while the save of the clock-in
\* was still awaited, and shows the session.
C18_Witness ==
    /\ last = Event("statusBar", "none")
    /\ SaveTask("clockIn") \in BagToSet(pending)
    /\ statusBar = [text |-> "Clocked in", duration |-> Some([h |-> 1, m |-> 30])]
    /\ Len(activeSessions) = 1

\* C19 as claimed: once currentUser is a member id it never becomes null again.
C19_IdentityNeverCleared ==
    [][ currentUser # Null => currentUser' # Null ]_vars

\* C19: once currentUser is a member id it becomes null again only by the Remove
\* control that was rendered for that member; every other step keeps it set.
C19_IdentityClearedOnlyByOwnRemove ==
    [][ (currentUser # Null /\ currentUser' = Null)
        => /\ manageModal # Null
           /\ \E index \in 1..Len(manageModal[1]) :
                 /\ manageModal[1][index].id = currentUser
                 /\ ManageRemove(index) ]_vars

\* The identity that 'Add me' set was cleared by a Remove before the save of the
\* add had completed.
C19_Witness ==
    /\ last = Event("remove", "none")
    /\ currentUser = Null
    /\ SaveTask("addMe") \in BagToSet(pending)

\* C20: the duration line of every handoff document reads H hours and M minutes
\* with H the whole hours and M the remaining whole minutes of the session's
\* length d = clockOutTime - clockInTime, which is what the status bar shows for
\* an interval of length d, also when d is a day or more.
C20_DurationLineIsSessionLength ==
    \A doc \in docs : \A i \in 1..Len(closedLog) :
        doc.path = Filename(closedLog[i].clockOutTime[1],
                            getMemberName(labMembers, closedLog[i].userId))
        => LET d == closedLog[i].clockOutTime[1] - closedLog[i].clockInTime
           IN /\ doc.content.duration =
                    [h |-> d \div (60 * TicksPerMinute), m |-> (d \div TicksPerMinute) % 60]
              /\ doc.content.duration = getSessionDuration(0, d)

\* C21: the path of a handoff document is made of the clock-out time cut to the
\* minute and of the member's display name, or of the raw userId when no member
\* has that id, and of nothing else; when a document of that path exists already
\* the creation is rejected and the documents in the vault stay as they are.
C21_PathFromMinuteAndName ==
    [][ /\ \A task \in BagToSet(pending') :
              (task.pc = "create" /\ task \notin BagToSet(pending))
              => LET session == task.sess[1]
                     named == {labMembers[i] : i \in 1..Len(labMembers)}
                     member == {m \in named : m.id = session.userId}
                 IN task.path[1] =
                        [minute |-> session.clockOutTime[1] \div TicksPerMinute,
                         name |-> IF member = {} THEN session.userId
                                  ELSE (CHOOSE m \in member : TRUE).name]
        /\ \A task \in BagToSet(pending) :
              (/\ task.pc = "create"
               /\ CopiesIn(task, pending') < CopiesIn(task, pending)
               /\ \E doc \in docs : doc.path = task.path[1])
              => last'.op = "clockOutRejected" /\ docs' = docs ]_vars

\* A member clocked out twice within one minute, at different readings of the
\* clock: the second document was rejected and the first is the only one.
C21_Witness ==
    /\ last = Event("clockOutRejected", "none")
    /\ Len(sessionHistory) = 2
    /\ sessionHistory[1].userId = sessionHistory[2].userId
    /\ sessionHistory[1].clockOutTime[1] # sessionHistory[2].clockOutTime[1]
    /\ Minute(sessionHistory[1].clockOutTime[1]) = Minute(sessionHistory[2].clockOutTime[1])
    /\ docs = {[path |-> Filename(sessionHistory[1].clockOutTime[1], <<"A">>),
                content |-> Content(sessionHistory[1], CHOOSE data \in FormInputs : TRUE,
                                    <<"A">>)]}

\* C22: each of the five sections of a handoff document about to be written shows
\* the field as it was submitted (the fields the closed session keeps as its
\* handoffNote) when that field is non-empty and the section's own placeholder
\* when it is empty, the tagged id with an '@' before it.
C22_SectionsShowSubmittedFields ==
    \A task \in BagToSet(pending) :
        task.pc = "create"
        => LET note == task.sess[1].handoffNote[1]
               text == task.content[1]
           IN /\ text.whatIDid = IF note[2] = "" THEN "_No notes_" ELSE note[2]
              /\ text.running = IF note[4] = "" THEN "_Nothing noted_" ELSE note[4]
              /\ text.needsAttention = IF note[6] = "" THEN "_Nothing urgent_" ELSE note[6]
              /\ text.tagged = IF note[8] = "" THEN "_No one tagged_" ELSE "@" \o note[8]
              /\ text.additionalNotes = IF note[10] = "" THEN "_None_" ELSE note[10]

\* C23: createFolder is under way for at most one clock-out at a time, and for
\* none once the handoff folder exists.
C23_FolderCreatedOnce ==
    LET creating == {task \in BagToSet(pending) : task.pc = "createFolder"} IN
    /\ Cardinality(creating) <= 1
    /\ \A task \in creating : CopiesIn(task, pending) = 1 /\ ~folderExists

\* C24: every activation of a Remove control leaves the roster as it was but for
\* the member the control was rendered for; no other member goes.
C24_RemoveTakesRenderedMember ==
    [][ manageModal # Null
        => \A index \in 1..Len(manageModal[1]) :
              ManageRemove(index)
              => labMembers' = SelectSeq(labMembers,
                                         LAMBDA m : m # manageModal[1][index]) ]_vars

\* C25: currentUser is null or the id of a member of the roster.
C25_IdentityIsMember ==
    currentUser = Null \/ HasMemberId(labMembers, currentUser)

\* C26: after every step each session in activeSessions has neither clockOutTime
\* nor handoffNote and each session in sessionHistory has both, no session is in
\* both lists, and a session that was in one of the lists before the step is in
\* one of them after it (while the history has room, so that none is evicted).
C26_SessionInExactlyOneList ==
    [][ LET count(s, list) ==
                Cardinality({i \in 1..Len(list) :
                                /\ list[i].userId = s.userId
                                /\ list[i].clockInTime = s.clockInTime})
            before == {activeSessions[i] : i \in 1..Len(activeSessions)}
                          \cup {sessionHistory[i] : i \in 1..Len(sessionHistory)}
        IN
        /\ \A i \in 1..Len(activeSessions') :
              /\ activeSessions'[i].clockOutTime = Null
              /\ activeSessions'[i].handoffNote = Null
        /\ \A i \in 1..Len(sessionHistory') :
              /\ sessionHistory'[i].clockOutTime # Null
              /\ sessionHistory'[i].handoffNote # Null
        /\ \A i \in 1..Len(activeSessions'), j \in 1..Len(sessionHistory') :
              activeSessions'[i] # sessionHistory'[j]
        /\ Len(sessionHistory) < HistoryLimit
              => \A s \in before :
                    count(s, activeSessions') + count(s, sessionHistory')
                        >= count(s, activeSessions) + count(s, sessionHistory) ]_vars

\* A member is clocked in for the third time, with two closed sessions in the
\* history and one handoff document in the vault, and a write is still awaited.
C26_Witness ==
    /\ Len(activeSessions) = 1
    /\ Len(sessionHistory) = 2
    /\ Cardinality(docs) = 1
    /\ pending # EmptyBag

\* C27: the step that shows the clock-out success notice is the successful end of
\* the settings save of a clockOut whose handoff document is in the vault and
\* whose closed session is in the settings that were handed to the save; the end
\* of a failed document write or of a failed settings save never shows it.
C27_NoticeAfterDocumentAndSave ==
    [][ /\ last'.notice = "ClockedOut"
           => \E task \in BagToSet(pending) :
                 /\ ClockOutSaved(task, TRUE)
                 /\ [path |-> task.path[1], content |-> task.content[1]] \in docs
                 /\ \E i \in 1..Len(persisted.sessionHistory) :
                       persisted.sessionHistory[i] = task.sess[1]
        /\ \A task \in BagToSet(pending) :
              (ClockOutSaved(task, FALSE) \/ ClockOutDocCreated(task, FALSE)
                  \/ ClockOutFolderCreated(task, FALSE))
              => last'.notice # "ClockedOut" ]_vars

\* The success notice is shown for one of two clock-outs; the other has failed,
\* and the vault holds one handoff document.
C27_Witness ==
    /\ last = Event("clockOutSaved", "ClockedOut")
    /\ Len(sessionHistory) = 2
    /\ Cardinality(docs) = 1
    /\ pending = EmptyBag

\* C28: after every step a path is in pinnedFiles exactly when it has been toggled
\* an odd number of times since it was last absent, no path is in pinnedFiles
\* twice, and a toggle unpins a pinned path and pins an unpinned one.
C28_PinnedIffOddToggles ==
    [][ /\ \A path \in Paths :
              (\E i \in 1..Len(pinnedFiles') : pinnedFiles'[i] = path)
                  <=> toggles'[path] % 2 = 1
        /\ \A i, j \in 1..Len(pinnedFiles') : pinnedFiles'[i] = pinnedFiles'[j] => i = j
        /\ \A path \in Paths :
              TogglePin(path)
              => LET pinned == \E i \in 1..Len(pinnedFiles) : pinnedFiles[i] = path IN
                 /\ (\E i \in 1..Len(pinnedFiles') : pinnedFiles'[i] = path) <=> ~pinned
                 /\ last'.notice = IF pinned THEN "Unpinned" ELSE "Pinned"
                 /\ \A other \in Paths \ {path} :
                       (\E i \in 1..Len(pinnedFiles') : pinnedFiles'[i] = other)
                           <=> \E i \in 1..Len(pinnedFiles) : pinnedFiles[i] = other ]_vars

\* The middle one of three pinned paths has been unpinned while the saves of two
\* toggles are still awaited.
C28_Witness ==
    /\ last = Event("togglePin", "Unpinned")
    /\ pinnedFiles = <<"p", "r">>
    /\ CopiesIn(SaveTask("togglePin"), pending) = 2

\* C29: a sweep deletes exactly the files under the messages folder that are older
\* than autoDeleteHours hours when it starts, and none when auto-delete is
\* disabled, by the settings as they are at that moment; each deletion takes
\* out the one file it is for; and the messages that showMessages goes on to
\* list are files that the completed sweep has left in the vault.
C29_SweepDeletesExactlyExpired ==
    [][ /\ ShowMessages(now')
           => IF Expired(messages, popupWindow, now') = {}
              THEN \A task \in BagToSet(pending') :
                      task.pc = "delete"
                      => CopiesIn(task, pending') = CopiesIn(task, pending)
              ELSE \E task \in BagToSet(pending') :
                      /\ CopiesIn(task, pending') > CopiesIn(task, pending)
                      /\ task.pc = "delete"
                      /\ task.data[1].todo = Expired(messages, popupWindow, now')
        /\ \A task \in {sweep \in BagToSet(pending) : sweep.pc = "delete"} :
              \A file \in task.data[1].todo :
                 SweepDeleted(task, file, TRUE) => messages' = messages \ {file}
        /\ \A task \in BagToSet(pending') :
              (/\ task.op = "showMessages"
               /\ task.pc = "read"
               /\ CopiesIn(task, pending') > CopiesIn(task, pending))
              => /\ task.data[1].todo = {}
                 /\ task.data[1].loaded \subseteq messages' ]_vars

\* C30: every sweep and every listing of the messages goes by the auto-delete
\* flag, the hours and the folder that the settings hold when it starts, and the
\* modal computes 'Expiring On' from the hours the settings hold when it opens.
C30_ChangedSettingsGovern ==
    [][ /\ ShowMessages(now')
           => /\ Expired(messages, popupSettings, now')
                     = Expired(messages, popupWindow, now')
              /\ InFolder(messages, popupSettings.messagesFolder)
                     = InFolder(messages, popupWindow.messagesFolder)
        /\ (popupModal = Null /\ popupModal' # Null)
           => popupModal'[1].autoDeleteHours = popupWindow.autoDeleteHours ]_vars

====
